---- MODULE Spec2Model ----
(***************************************************************************)
(* Model of src/Banco/src/app.py: the shared account CuentaBancaria        *)
(* (saldo + threading.Lock) and the threads that call depositar and        *)
(* retirar on the single module-level instance cuenta_bancaria.            *)
(*                                                                         *)
(* Every thread is at one position (pc) of the method it executes.  One    *)
(* action is one source line of the method; the read and the write of      *)
(* `self.saldo += monto` / `self.saldo -= monto` are two steps, because    *)
(* Python may switch threads between the load and the store.               *)
(* print() inside the locked region either succeeds or raises (stdout      *)
(* closed / not encodable): both outcomes are modelled.                    *)
(***************************************************************************)
EXTENDS Integers, Sequences, FiniteSets

\* ---------------------------------------------------------------- bounds
NThreads == 3
MaxCalls == 2
MaxReqs == 3

\* cuenta_bancaria = CuentaBancaria(saldo_inicial=1000)
SaldoInicial == 1000

Threads == 1..NThreads
\* amounts the callers draw from (all > 0, as the boundary guarantees)
Montos == {300, 700}

VARIABLES
    inicial,     \* the saldo_inicial the account was constructed with
    saldo,       \* CuentaBancaria.saldo
    lock,        \* CuentaBancaria.lock: TRUE = locked
    pc,          \* position of each thread
    monto,       \* argument of the call each thread executes
    tmp,         \* value of self.saldo loaded by the thread for += / -=
    ret,         \* what the call hands to its caller
    owner,       \* history: the thread(s) whose acquire() locked the lock
    pre,         \* history: saldo when the thread acquired the lock
    hist,        \* history: the calls, in the order they acquired the lock
    idx,         \* history: position of the thread's call in hist
    depositado,  \* history: sum of the deposits stored into saldo
    retirado,    \* history: sum of the withdrawals stored into saldo
    session,     \* Flask session of each caller: its 'cajero_id', or SinSesion
    req,         \* the HTTP request each caller has in progress
    resp,        \* the HTTP response to that request
    ultimo,      \* history: the caller's last session-changing event
    nreq,        \* history: number of HTTP requests made
    vistos,      \* history: the balances that existed during a /saldo read
    mutado       \* history: the thread's call has stored into saldo

\* the request boundary
http == <<session, req, resp, ultimo, nreq>>
\* what the stores into saldo record
obs == <<vistos, mutado>>

vars == <<inicial, saldo, lock, pc, monto, tmp, ret, owner, pre, hist, idx,
          depositado, retirado, session, req, resp, ultimo, nreq, vistos, mutado>>

\* ------------------------------------------------------------- results
Ninguno == [tipo |-> "ninguno", saldo |-> 0]
\* return True, self.saldo
Exito(s) == [tipo |-> "exito", saldo |-> s]
\* return False, f"Fondos insuficientes. Saldo actual: ${self.saldo}"
FondosInsuficientes(s) == [tipo |-> "fondos", saldo |-> s]
\* an exception leaves the method
Excepcion == [tipo |-> "excepcion", saldo |-> 0]

\* no 'cajero_id' in session; {k} when session['cajero_id'] = k
SinSesion == {}
SinPeticion == [ruta |-> "ninguna"]
SinRespuesta == [status |-> "ninguna", codigo |-> 0, saldo |-> 0]

\* --------------------------------------------------- positions of a thread
\* positions between lock.acquire() and lock.release()
LockedPCs == {"d_read", "d_write", "d_print", "d_return", "d_release",
              "r_check", "r_read", "r_write", "r_print", "r_return",
              "r_fail", "r_release"}
PrintPCs == {"d_print", "r_print"}

InLocked(t) == pc[t] \in LockedPCs
Llamadas == Len(hist) + Cardinality({t \in Threads : pc[t] \in {"d_acquire", "r_acquire"}})

\* ------------------------------------------------------------ the class
\* CuentaBancaria.__init__
CuentaInit(saldo_inicial) ==
    /\ inicial = saldo_inicial
    /\ saldo = saldo_inicial
    /\ lock = FALSE

ThreadsInit ==
    /\ pc = [t \in Threads |-> "idle"]
    /\ monto = [t \in Threads |-> 0]
    /\ tmp = [t \in Threads |-> 0]
    /\ ret = [t \in Threads |-> Ninguno]
    /\ owner = {}
    /\ pre = [t \in Threads |-> 0]
    /\ hist = <<>>
    /\ idx = [t \in Threads |-> 0]
    /\ depositado = 0
    /\ retirado = 0
    /\ session = [t \in Threads |-> SinSesion]
    /\ req = [t \in Threads |-> SinPeticion]
    /\ resp = [t \in Threads |-> SinRespuesta]
    /\ ultimo = [t \in Threads |-> "ninguno"]
    /\ nreq = 0
    /\ vistos = [t \in Threads |-> {}]
    /\ mutado = [t \in Threads |-> FALSE]

Init ==
    /\ CuentaInit(SaldoInicial)
    /\ ThreadsInit

\* acquire() that never blocks
PuedeAdquirirSiempre == TRUE

\* threading.Lock.acquire(): blocks while the lock is locked
PuedeAdquirir == lock = FALSE

LockAcquire(t, o) ==
    /\ PuedeAdquirir
    /\ lock' = TRUE
    /\ owner' = owner \cup {t}
    /\ pre' = [pre EXCEPT ![t] = saldo]
    /\ hist' = Append(hist, [t |-> t, op |-> o, monto |-> monto[t]])
    /\ idx' = [idx EXCEPT ![t] = Len(hist) + 1]

\* threading.Lock.release(): unlocks; RuntimeError on an unlocked lock
LockRelease(t) ==
    IF lock
    THEN /\ lock' = FALSE
         /\ owner' = {}
         /\ ret' = ret
    ELSE /\ lock' = lock
         /\ owner' = owner
         /\ ret' = [ret EXCEPT ![t] = Excepcion]

\* the check asks for a positive balance only
SuficienteSaldoPositivo(s, m) == s > 0

\* the check is strict
SuficienteEstricto(s, m) == s > m

\* if self.saldo >= monto
Suficiente(s, m) == s >= m

\* history of a store of s into saldo by thread t
Anotar(t, s) ==
    /\ mutado' = [mutado EXCEPT ![t] = TRUE]
    /\ vistos' = [u \in Threads |-> IF pc[u] = "s_read" THEN vistos[u] \cup {s} ELSE vistos[u]]

\* ------------------------------------------------------------ the calls
LlamarDepositar(t, m) ==
    /\ pc[t] = "idle"
    /\ Llamadas < MaxCalls
    /\ pc' = [pc EXCEPT ![t] = "d_acquire"]
    /\ monto' = [monto EXCEPT ![t] = m]
    /\ UNCHANGED <<http, obs, inicial, saldo, lock, tmp, ret, owner, pre, hist, idx, depositado, retirado>>

LlamarRetirar(t, m) ==
    /\ pc[t] = "idle"
    /\ Llamadas < MaxCalls
    /\ pc' = [pc EXCEPT ![t] = "r_acquire"]
    /\ monto' = [monto EXCEPT ![t] = m]
    /\ UNCHANGED <<http, obs, inicial, saldo, lock, tmp, ret, owner, pre, hist, idx, depositado, retirado>>

\* ------------------------------------------------------------ depositar
\* depositar enters its body without taking the lock
DepAcquireSinLock(t) ==
    /\ pc[t] = "d_acquire"
    /\ pre' = [pre EXCEPT ![t] = saldo]
    /\ hist' = Append(hist, [t |-> t, op |-> "depositar", monto |-> monto[t]])
    /\ idx' = [idx EXCEPT ![t] = Len(hist) + 1]
    /\ pc' = [pc EXCEPT ![t] = "d_read"]
    /\ UNCHANGED <<http, obs, inicial, saldo, lock, owner, monto, tmp, ret, depositado, retirado>>

\* self.lock.acquire()
DepAcquire(t) ==
    /\ pc[t] = "d_acquire"
    /\ LockAcquire(t, "depositar")
    /\ pc' = [pc EXCEPT ![t] = "d_read"]
    /\ UNCHANGED <<http, obs, inicial, saldo, monto, tmp, ret, depositado, retirado>>

\* self.saldo += monto: load
DepRead(t) ==
    /\ pc[t] = "d_read"
    /\ tmp' = [tmp EXCEPT ![t] = saldo]
    /\ pc' = [pc EXCEPT ![t] = "d_write"]
    /\ UNCHANGED <<http, obs, inicial, saldo, lock, monto, ret, owner, pre, hist, idx, depositado, retirado>>

\* self.saldo += monto: store
DepWrite(t) ==
    /\ pc[t] = "d_write"
    /\ saldo' = tmp[t] + monto[t]
    /\ Anotar(t, saldo')
    /\ depositado' = depositado + monto[t]
    /\ pc' = [pc EXCEPT ![t] = "d_print"]
    /\ UNCHANGED <<http, inicial, lock, monto, tmp, ret, owner, pre, hist, idx, retirado>>

\* print(...) succeeds
DepPrint(t) ==
    /\ pc[t] = "d_print"
    /\ pc' = [pc EXCEPT ![t] = "d_return"]
    /\ UNCHANGED <<http, obs, inicial, saldo, lock, monto, tmp, ret, owner, pre, hist, idx, depositado, retirado>>

\* print(...) raises and no finally block releases the lock
DepPrintFallaSinFinally(t) ==
    /\ pc[t] = "d_print"
    /\ ret' = [ret EXCEPT ![t] = Excepcion]
    /\ pc' = [pc EXCEPT ![t] = "fin"]
    /\ UNCHANGED <<http, obs, inicial, saldo, lock, monto, tmp, owner, pre, hist, idx, depositado, retirado>>

\* print(...) raises: control goes to the finally block
DepPrintFalla(t) ==
    /\ pc[t] = "d_print"
    /\ ret' = [ret EXCEPT ![t] = Excepcion]
    /\ pc' = [pc EXCEPT ![t] = "d_release"]
    /\ UNCHANGED <<http, obs, inicial, saldo, lock, monto, tmp, owner, pre, hist, idx, depositado, retirado>>

\* the value returned is the balance loaded before the addition
DepReturnAntiguo(t) ==
    /\ pc[t] = "d_return"
    /\ ret' = [ret EXCEPT ![t] = Exito(tmp[t])]
    /\ pc' = [pc EXCEPT ![t] = "d_release"]
    /\ UNCHANGED <<http, obs, inicial, saldo, lock, monto, tmp, owner, pre, hist, idx, depositado, retirado>>

\* return True, self.saldo
DepReturn(t) ==
    /\ pc[t] = "d_return"
    /\ ret' = [ret EXCEPT ![t] = Exito(saldo)]
    /\ pc' = [pc EXCEPT ![t] = "d_release"]
    /\ UNCHANGED <<http, obs, inicial, saldo, lock, monto, tmp, owner, pre, hist, idx, depositado, retirado>>

\* finally: self.lock.release()
DepRelease(t) ==
    /\ pc[t] = "d_release"
    /\ LockRelease(t)
    /\ pc' = [pc EXCEPT ![t] = "fin"]
    /\ UNCHANGED <<http, obs, inicial, saldo, monto, tmp, pre, hist, idx, depositado, retirado>>

\* -------------------------------------------------------------- retirar
\* retirar enters its body without taking the lock
RetAcquireSinLock(t) ==
    /\ pc[t] = "r_acquire"
    /\ pre' = [pre EXCEPT ![t] = saldo]
    /\ hist' = Append(hist, [t |-> t, op |-> "retirar", monto |-> monto[t]])
    /\ idx' = [idx EXCEPT ![t] = Len(hist) + 1]
    /\ pc' = [pc EXCEPT ![t] = "r_check"]
    /\ UNCHANGED <<http, obs, inicial, saldo, lock, owner, monto, tmp, ret, depositado, retirado>>

\* self.lock.acquire()
RetAcquire(t) ==
    /\ pc[t] = "r_acquire"
    /\ LockAcquire(t, "retirar")
    /\ pc' = [pc EXCEPT ![t] = "r_check"]
    /\ UNCHANGED <<http, obs, inicial, saldo, monto, tmp, ret, depositado, retirado>>

\* if self.saldo >= monto: ... else: ...
RetCheck(t) ==
    /\ pc[t] = "r_check"
    /\ pc' = [pc EXCEPT ![t] = IF Suficiente(saldo, monto[t]) THEN "r_read" ELSE "r_fail"]
    /\ UNCHANGED <<http, obs, inicial, saldo, lock, monto, tmp, ret, owner, pre, hist, idx, depositado, retirado>>

\* self.saldo -= monto: load
RetRead(t) ==
    /\ pc[t] = "r_read"
    /\ tmp' = [tmp EXCEPT ![t] = saldo]
    /\ pc' = [pc EXCEPT ![t] = "r_write"]
    /\ UNCHANGED <<http, obs, inicial, saldo, lock, monto, ret, owner, pre, hist, idx, depositado, retirado>>

\* the store of depositar pasted into retirar: self.saldo += monto
RetWriteSuma(t) ==
    /\ pc[t] = "r_write"
    /\ saldo' = tmp[t] + monto[t]
    /\ Anotar(t, saldo')
    /\ retirado' = retirado + monto[t]
    /\ pc' = [pc EXCEPT ![t] = "r_print"]
    /\ UNCHANGED <<http, inicial, lock, monto, tmp, ret, owner, pre, hist, idx, depositado>>

\* self.saldo -= monto: store
RetWrite(t) ==
    /\ pc[t] = "r_write"
    /\ saldo' = tmp[t] - monto[t]
    /\ Anotar(t, saldo')
    /\ retirado' = retirado + monto[t]
    /\ pc' = [pc EXCEPT ![t] = "r_print"]
    /\ UNCHANGED <<http, inicial, lock, monto, tmp, ret, owner, pre, hist, idx, depositado>>

\* print(...) succeeds
RetPrint(t) ==
    /\ pc[t] = "r_print"
    /\ pc' = [pc EXCEPT ![t] = "r_return"]
    /\ UNCHANGED <<http, obs, inicial, saldo, lock, monto, tmp, ret, owner, pre, hist, idx, depositado, retirado>>

\* print(...) raises: control goes to the finally block
RetPrintFalla(t) ==
    /\ pc[t] = "r_print"
    /\ ret' = [ret EXCEPT ![t] = Excepcion]
    /\ pc' = [pc EXCEPT ![t] = "r_release"]
    /\ UNCHANGED <<http, obs, inicial, saldo, lock, monto, tmp, owner, pre, hist, idx, depositado, retirado>>

\* return True, self.saldo
RetReturn(t) ==
    /\ pc[t] = "r_return"
    /\ ret' = [ret EXCEPT ![t] = Exito(saldo)]
    /\ pc' = [pc EXCEPT ![t] = "r_release"]
    /\ UNCHANGED <<http, obs, inicial, saldo, lock, monto, tmp, owner, pre, hist, idx, depositado, retirado>>

\* the failure reports the amount asked for instead of the balance
RetFailReportaMonto(t) ==
    /\ pc[t] = "r_fail"
    /\ ret' = [ret EXCEPT ![t] = FondosInsuficientes(monto[t])]
    /\ pc' = [pc EXCEPT ![t] = "r_release"]
    /\ UNCHANGED <<http, obs, inicial, saldo, lock, monto, tmp, owner, pre, hist, idx, depositado, retirado>>

\* return False, f"Fondos insuficientes. Saldo actual: ${self.saldo}"
RetFail(t) ==
    /\ pc[t] = "r_fail"
    /\ ret' = [ret EXCEPT ![t] = FondosInsuficientes(saldo)]
    /\ pc' = [pc EXCEPT ![t] = "r_release"]
    /\ UNCHANGED <<http, obs, inicial, saldo, lock, monto, tmp, owner, pre, hist, idx, depositado, retirado>>

\* finally: self.lock.release()
RetRelease(t) ==
    /\ pc[t] = "r_release"
    /\ LockRelease(t)
    /\ pc' = [pc EXCEPT ![t] = "fin"]
    /\ UNCHANGED <<http, obs, inicial, saldo, monto, tmp, pre, hist, idx, depositado, retirado>>

\* the caller has the result; the thread serves its next request
Volver(t) ==
    /\ pc[t] = "fin"
    /\ pc' = [pc EXCEPT ![t] = "idle"]
    /\ monto' = [monto EXCEPT ![t] = 0]
    /\ tmp' = [tmp EXCEPT ![t] = 0]
    /\ ret' = [ret EXCEPT ![t] = Ninguno]
    /\ pre' = [pre EXCEPT ![t] = 0]
    /\ idx' = [idx EXCEPT ![t] = 0]
    /\ mutado' = [mutado EXCEPT ![t] = FALSE]
    /\ UNCHANGED <<http, vistos, inicial, saldo, lock, owner, hist, depositado, retirado>>

Depositar(t) ==
    \/ DepAcquire(t)
    \/ DepRead(t)
    \/ DepWrite(t)
    \/ DepPrint(t)
    \/ DepReturn(t)
    \/ DepRelease(t)

Retirar(t) ==
    \/ RetAcquire(t)
    \/ RetCheck(t)
    \/ RetRead(t)
    \/ RetWrite(t)
    \/ RetPrint(t)
    \/ RetReturn(t)
    \/ RetFail(t)
    \/ RetRelease(t)

Next ==
    \E t \in Threads :
        \/ \E m \in Montos : LlamarDepositar(t, m)
        \/ \E m \in Montos : LlamarRetirar(t, m)
        \/ Depositar(t)
        \/ DepPrintFalla(t)
        \/ Retirar(t)
        \/ RetPrintFalla(t)
        \/ Volver(t)

Spec == Init /\ [][Next]_vars

\* ------------------------------------------------- concurrent scenarios
\* A scenario constructs an account of its own and issues one call per
\* thread, all at once; the threads then run depositar / retirar as above.
EmitirDepositar(t, m) ==
    /\ pc[t] = "idle"
    /\ pc' = [pc EXCEPT ![t] = "d_acquire"]
    /\ monto' = [monto EXCEPT ![t] = m]
    /\ UNCHANGED <<http, obs, inicial, saldo, lock, tmp, ret, owner, pre, hist, idx, depositado, retirado>>

EmitirRetirar(t, m) ==
    /\ pc[t] = "idle"
    /\ pc' = [pc EXCEPT ![t] = "r_acquire"]
    /\ monto' = [monto EXCEPT ![t] = m]
    /\ UNCHANGED <<http, obs, inicial, saldo, lock, tmp, ret, owner, pre, hist, idx, depositado, retirado>>

\* N concurrent deposits against an initial balance B
MontosDeposito == {10, 25}

InitDepositos ==
    /\ \E b \in {0, SaldoInicial} : CuentaInit(b)
    /\ ThreadsInit

NextDepositos ==
    \E t \in Threads :
        \/ \E m \in MontosDeposito : EmitirDepositar(t, m)
        \/ Depositar(t)
        \/ DepPrintFalla(t)

SpecDepositos == InitDepositos /\ [][NextDepositos]_vars

\* K concurrent withdrawals of 100 against a balance of 100
InitRetiros100 ==
    /\ CuentaInit(100)
    /\ ThreadsInit

NextRetiros100 ==
    \E t \in Threads :
        \/ EmitirRetirar(t, 100)
        \/ Retirar(t)

SpecRetiros100 == InitRetiros100 /\ [][NextRetiros100]_vars

\* concurrent withdrawals of 700 against the balance of cuenta_bancaria
NextRetiros700 ==
    \E t \in Threads :
        \/ EmitirRetirar(t, 700)
        \/ Retirar(t)

SpecRetiros700 == Init /\ [][NextRetiros700]_vars

\* --------------------------------------------------- the request boundary
\* A JSON value of the request body: an integer, a string that int() can
\* convert (valor is the number its digits denote), any other string, or
\* an absent key (None).
Entero(v) == [clase |-> "entero", valor |-> v]
CadenaNumerica(v) == [clase |-> "cadena_numerica", valor |-> v]
Cadena == [clase |-> "cadena", valor |-> 0]
Nulo == [clase |-> "nulo", valor |-> 0]

\* values of 'monto' the callers send
EntradasMonto == {Entero(0 - 300), Entero(0), Entero(700), CadenaNumerica(300), Nulo}
\* values of 'cajero_id' and 'pin' the callers send
EntradasCajero == {Entero(1001), Entero(9999)}
EntradasPin == {CadenaNumerica(1234), Entero(1234)}

\* CAJEROS_DB: key -> stored 'pin' (a string)
CAJEROS_DB ==
    [k \in {1001, 1002, 1003} |->
        CASE k = 1001 -> CadenaNumerica(1234)
          [] k = 1002 -> CadenaNumerica(4321)
          [] k = 1003 -> CadenaNumerica(0)]

\* int(x): raises ValueError / TypeError on a non-numeric string / None
Convertible(e) == e.clase \in {"entero", "cadena_numerica"}
IntDe(e) == e.valor

\* str(x): the key that str() of the value is ("None" and other text are
\* no key of CAJEROS_DB)
ClaveDe(e) == IF e.clase \in {"entero", "cadena_numerica"} THEN {e.valor} ELSE {}

RespSuccess(s) == [status |-> "success", codigo |-> 200, saldo |-> s]
RespError(s) == [status |-> "error", codigo |-> 400, saldo |-> s]
RespNoAutorizado == [status |-> "error", codigo |-> 401, saldo |-> 0]
RespAuthError == [status |-> "auth_error", codigo |-> 401, saldo |-> 0]
RespLoggedIn == [status |-> "logged_in", codigo |-> 200, saldo |-> 0]
RespLoggedOut == [status |-> "logged_out", codigo |-> 200, saldo |-> 0]

\* a PIN check that any stored teller passes
CredencialesSoloId(id, pin) == ClaveDe(id) \subseteq DOMAIN CAJEROS_DB /\ ClaveDe(id) # {}

\* if cajero_id in CAJEROS_DB and CAJEROS_DB[cajero_id]['pin'] == pin
CredencialesValidas(id, pin) ==
    \E k \in ClaveDe(id) : k \in DOMAIN CAJEROS_DB /\ CAJEROS_DB[k] = pin

\* login_required without its check
AutenticadoSiempre(t) == TRUE

\* login_required: 'cajero_id' in session
Autenticado(t) == session[t] # SinSesion

\* the amount check lets zero through
MontoNoNegativo(m) == m >= 0

\* not (monto <= 0)
MontoPositivo(m) == m > 0

Peticion(t) ==
    /\ pc[t] = "idle"
    /\ nreq < MaxReqs
    /\ nreq' = nreq + 1

\* login()
Login(t, id, pin) ==
    /\ Peticion(t)
    /\ req' = [req EXCEPT ![t] = [ruta |-> "login", id |-> id, pin |-> pin]]
    /\ IF CredencialesValidas(id, pin)
       THEN /\ session' = [session EXCEPT ![t] = ClaveDe(id)]
            /\ ultimo' = [ultimo EXCEPT ![t] = "login"]
            /\ resp' = [resp EXCEPT ![t] = RespSuccess(0)]
       ELSE /\ session' = session
            /\ ultimo' = ultimo
            /\ resp' = [resp EXCEPT ![t] = RespNoAutorizado]
    /\ pc' = [pc EXCEPT ![t] = "resp"]
    /\ UNCHANGED <<obs, inicial, saldo, lock, monto, tmp, ret, owner, pre, hist, idx, depositado, retirado>>

\* logout()
Logout(t) ==
    /\ Peticion(t)
    /\ req' = [req EXCEPT ![t] = [ruta |-> "logout"]]
    /\ session' = [session EXCEPT ![t] = SinSesion]
    /\ ultimo' = [ultimo EXCEPT ![t] = "logout"]
    /\ resp' = [resp EXCEPT ![t] = RespSuccess(0)]
    /\ pc' = [pc EXCEPT ![t] = "resp"]
    /\ UNCHANGED <<obs, inicial, saldo, lock, monto, tmp, ret, owner, pre, hist, idx, depositado, retirado>>

\* cajero_status()
CajeroStatus(t) ==
    /\ Peticion(t)
    /\ req' = [req EXCEPT ![t] = [ruta |-> "cajero_status"]]
    /\ resp' = [resp EXCEPT ![t] = IF session[t] # SinSesion THEN RespLoggedIn ELSE RespLoggedOut]
    /\ pc' = [pc EXCEPT ![t] = "resp"]
    /\ UNCHANGED <<session, ultimo, obs, inicial, saldo, lock, monto, tmp, ret, owner, pre, hist, idx, depositado, retirado>>

\* a balance query that takes the account lock for its read
ConsultarSaldoInicioConLock(t) ==
    /\ Peticion(t)
    /\ PuedeAdquirir
    /\ lock' = TRUE
    /\ owner' = owner \cup {t}
    /\ req' = [req EXCEPT ![t] = [ruta |-> "saldo"]]
    /\ vistos' = [vistos EXCEPT ![t] = {saldo}]
    /\ pc' = [pc EXCEPT ![t] = "s_read"]
    /\ UNCHANGED <<session, resp, ultimo, mutado, inicial, saldo, monto, tmp, ret, pre, hist, idx, depositado, retirado>>

\* consultar_saldo(): the request arrives
ConsultarSaldoInicio(t) ==
    /\ Peticion(t)
    /\ req' = [req EXCEPT ![t] = [ruta |-> "saldo"]]
    /\ vistos' = [vistos EXCEPT ![t] = {saldo}]
    /\ pc' = [pc EXCEPT ![t] = "s_read"]
    /\ UNCHANGED <<session, resp, ultimo, mutado, inicial, saldo, lock, monto, tmp, ret, owner, pre, hist, idx, depositado, retirado>>

\* the response carries the balance the account was constructed with
ConsultarSaldoLeerInicial(t) ==
    /\ pc[t] = "s_read"
    /\ resp' = [resp EXCEPT ![t] = RespSuccess(inicial)]
    /\ pc' = [pc EXCEPT ![t] = "resp"]
    /\ UNCHANGED <<session, req, ultimo, nreq, obs, inicial, saldo, lock, monto, tmp, ret, owner, pre, hist, idx, depositado, retirado>>

\* consultar_saldo(): "saldo": cuenta_bancaria.saldo, read without the lock
ConsultarSaldoLeer(t) ==
    /\ pc[t] = "s_read"
    /\ resp' = [resp EXCEPT ![t] = RespSuccess(saldo)]
    /\ pc' = [pc EXCEPT ![t] = "resp"]
    /\ UNCHANGED <<session, req, ultimo, nreq, obs, inicial, saldo, lock, monto, tmp, ret, owner, pre, hist, idx, depositado, retirado>>

\* login_required + handle_depositar / handle_retirar up to the call of the
\* account: entrada is the request's 'monto', destino the first position
\* of the method called
Entrar(t, ruta, entrada, destino) ==
    /\ Peticion(t)
    /\ req' = [req EXCEPT ![t] = [ruta |-> ruta, entrada |-> entrada]]
    /\ IF ~Autenticado(t)
       THEN /\ resp' = [resp EXCEPT ![t] = RespAuthError]
            /\ pc' = [pc EXCEPT ![t] = "resp"]
            /\ monto' = monto
       ELSE IF ~Convertible(entrada)
       THEN /\ resp' = [resp EXCEPT ![t] = RespError(0)]
            /\ pc' = [pc EXCEPT ![t] = "resp"]
            /\ monto' = monto
       ELSE IF ~MontoPositivo(IntDe(entrada))
       THEN /\ resp' = [resp EXCEPT ![t] = RespError(0)]
            /\ pc' = [pc EXCEPT ![t] = "resp"]
            /\ monto' = monto
       ELSE /\ Llamadas < MaxCalls
            /\ resp' = resp
            /\ pc' = [pc EXCEPT ![t] = destino]
            /\ monto' = [monto EXCEPT ![t] = IntDe(entrada)]
    /\ UNCHANGED <<session, ultimo, obs, inicial, saldo, lock, tmp, ret, owner, pre, hist, idx, depositado, retirado>>

\* handle_depositar
HandleDepositar(t, entrada) == Entrar(t, "depositar", entrada, "d_acquire")

\* handle_retirar
HandleRetirar(t, entrada) == Entrar(t, "retirar", entrada, "r_acquire")

\* handle_depositar after cuenta_bancaria.depositar(monto): its print()
\* succeeds and the success response is built, or depositar raised
ResponderDepositar(t) ==
    /\ pc[t] = "fin"
    /\ req[t].ruta = "depositar"
    /\ resp' = [resp EXCEPT ![t] = IF ret[t].tipo = "excepcion" THEN RespError(0)
                                   ELSE RespSuccess(ret[t].saldo)]
    /\ pc' = [pc EXCEPT ![t] = "resp"]
    /\ UNCHANGED <<session, req, ultimo, nreq, obs, inicial, saldo, lock, monto, tmp, ret, owner, pre, hist, idx, depositado, retirado>>

\* handle_depositar: its own print() raises
ResponderDepositarFalla(t) ==
    /\ pc[t] = "fin"
    /\ req[t].ruta = "depositar"
    /\ ret[t].tipo = "exito"
    /\ resp' = [resp EXCEPT ![t] = RespError(0)]
    /\ pc' = [pc EXCEPT ![t] = "resp"]
    /\ UNCHANGED <<session, req, ultimo, nreq, obs, inicial, saldo, lock, monto, tmp, ret, owner, pre, hist, idx, depositado, retirado>>

\* handle_retirar after cuenta_bancaria.retirar(monto)
ResponderRetirar(t) ==
    /\ pc[t] = "fin"
    /\ req[t].ruta = "retirar"
    /\ resp' = [resp EXCEPT ![t] =
                  CASE ret[t].tipo = "exito" -> RespSuccess(ret[t].saldo)
                    [] ret[t].tipo = "fondos" -> RespError(ret[t].saldo)
                    [] OTHER -> RespError(0)]
    /\ pc' = [pc EXCEPT ![t] = "resp"]
    /\ UNCHANGED <<session, req, ultimo, nreq, obs, inicial, saldo, lock, monto, tmp, ret, owner, pre, hist, idx, depositado, retirado>>

\* handle_retirar: its own print() raises
ResponderRetirarFalla(t) ==
    /\ pc[t] = "fin"
    /\ req[t].ruta = "retirar"
    /\ ret[t].tipo = "exito"
    /\ resp' = [resp EXCEPT ![t] = RespError(0)]
    /\ pc' = [pc EXCEPT ![t] = "resp"]
    /\ UNCHANGED <<session, req, ultimo, nreq, obs, inicial, saldo, lock, monto, tmp, ret, owner, pre, hist, idx, depositado, retirado>>

\* the response has been sent; the caller may make its next request
Terminar(t) ==
    /\ pc[t] = "resp"
    /\ pc' = [pc EXCEPT ![t] = "idle"]
    /\ req' = [req EXCEPT ![t] = SinPeticion]
    /\ resp' = [resp EXCEPT ![t] = SinRespuesta]
    /\ monto' = [monto EXCEPT ![t] = 0]
    /\ tmp' = [tmp EXCEPT ![t] = 0]
    /\ ret' = [ret EXCEPT ![t] = Ninguno]
    /\ pre' = [pre EXCEPT ![t] = 0]
    /\ idx' = [idx EXCEPT ![t] = 0]
    /\ mutado' = [mutado EXCEPT ![t] = FALSE]
    /\ vistos' = [vistos EXCEPT ![t] = {}]
    /\ UNCHANGED <<session, ultimo, nreq, inicial, saldo, lock, owner, hist, depositado, retirado>>

NextHTTP ==
    \E t \in Threads :
        \/ \E id \in EntradasCajero, pin \in EntradasPin : Login(t, id, pin)
        \/ Logout(t)
        \/ CajeroStatus(t)
        \/ ConsultarSaldoInicio(t)
        \/ ConsultarSaldoLeer(t)
        \/ \E e \in EntradasMonto : HandleDepositar(t, e)
        \/ \E e \in EntradasMonto : HandleRetirar(t, e)
        \/ Depositar(t)
        \/ DepPrintFalla(t)
        \/ Retirar(t)
        \/ RetPrintFalla(t)
        \/ ResponderDepositar(t)
        \/ ResponderDepositarFalla(t)
        \/ ResponderRetirar(t)
        \/ ResponderRetirarFalla(t)
        \/ Terminar(t)

SpecHTTP == Init /\ [][NextHTTP]_vars


\* ------------------------------------------------ the sequential account
\* The account executing the calls of h one after the other.
RECURSIVE SaldoSecuencial(_, _)
SaldoSecuencial(h, n) ==
    IF n = 0 THEN inicial
    ELSE LET s == SaldoSecuencial(h, n - 1)
             c == h[n]
         IN  IF c.op = "depositar" THEN s + c.monto
             ELSE IF s >= c.monto THEN s - c.monto ELSE s

\* what the n-th call of h returns in that execution
ResultadoSecuencial(h, n) ==
    LET s == SaldoSecuencial(h, n - 1)
        c == h[n]
    IN  IF c.op = "depositar" THEN Exito(s + c.monto)
        ELSE IF s >= c.monto THEN Exito(s - c.monto)
        ELSE FondosInsuficientes(s)

RECURSIVE SumaMontos(_, _)
SumaMontos(h, n) == IF n = 0 THEN 0 ELSE SumaMontos(h, n - 1) + h[n].monto

Terminados == {t \in Threads : pc[t] = "fin"}
Emitidos == {t \in Threads : pc[t] # "idle"}
Esperando == {t \in Threads : pc[t] \in {"d_acquire", "r_acquire"}}
TodosTerminados == Emitidos # {} /\ Emitidos = Terminados
ConExito == {t \in Terminados : ret[t].tipo = "exito"}
SinFondos == {t \in Terminados : ret[t].tipo = "fondos"}

\* ---------------------------------------------------------------- claims

\* C1: the balance is >= 0 in every reachable state, also in the middle of
\* another thread's depositar or retirar.
C1_SaldoNoNegativo == saldo >= 0

\* a withdrawal has just stored its subtraction while another withdrawal,
\* which the remaining balance cannot cover, waits for the lock
C1_Witness ==
    \E t, u \in Threads :
        /\ pc[t] = "r_print"
        /\ pc[u] = "r_acquire"
        /\ saldo < monto[u]

\* C2: at most one thread is inside the locked region of depositar or
\* retirar, and from the moment a thread acquired the lock until its own
\* store (so between a withdrawal's check and its subtraction) the balance
\* is the one it found: no other thread has changed it.
C2_ExclusionMutua ==
    /\ Cardinality({t \in Threads : InLocked(t)}) <= 1
    /\ \A t \in Threads :
          pc[t] \in {"d_read", "d_write", "r_check", "r_read", "r_write", "r_fail"}
              => saldo = pre[t]
    /\ \A t \in Threads :
          pc[t] \in {"r_read", "r_write"} => /\ saldo >= monto[t]
                                            /\ (pc[t] = "r_write" => tmp[t] = saldo)

\* a withdrawal is between its check and its store while another call
\* waits for the lock
C2_Witness ==
    \E t, u \in Threads :
        /\ pc[t] = "r_write"
        /\ u \in Esperando

\* C3: N concurrent deposits against an initial balance B: once every call
\* issued has ended, the balance is B plus the sum of the amounts.
C3_SinActualizacionesPerdidas ==
    TodosTerminados => saldo = inicial + SumaMontos(hist, Len(hist))

\* every thread has deposited, B = 0
C3_Witness ==
    /\ Terminados = Threads
    /\ inicial = 0
    /\ \E t \in Threads : ret[t] = Exito(saldo)

\* C4: the withdrawals that succeeded never sum to more than the initial
\* balance plus the deposits applied, and the balance is always
\* initial + deposits applied - withdrawals applied.
C4_SinSobregiro ==
    /\ retirado <= inicial + depositado
    /\ saldo = inicial + depositado - retirado

\* a deposit and a withdrawal have both been applied
C4_Witness ==
    /\ depositado > 0
    /\ retirado > 0

C7_FalloNoModifica ==
    \A t \in Threads :
        /\ (pc[t] = "r_fail" \/ (pc[t] = "r_release" /\ ret[t].tipo = "fondos"))
              => /\ saldo = pre[t]
                 /\ monto[t] > pre[t]
        /\ (pc[t] \in {"r_release", "fin"} /\ ret[t].tipo = "fondos")
              => /\ ret[t] = FondosInsuficientes(pre[t])
                 /\ monto[t] > pre[t]

\* a failed withdrawal is about to release the lock
C7_Witness ==
    \E t \in Threads :
        /\ pc[t] = "r_release"
        /\ ret[t].tipo = "fondos"

\* C8: the calls are linearizable in the order in which they acquired the
\* lock (a point between each call's invocation and its return): every
\* call that returns, returns what the sequential account returns for it
\* in that order, and with no call in progress the balance is the
\* sequential account's.
C8_Linealizable ==
    /\ \A t \in Threads :
          pc[t] = "fin" /\ ret[t].tipo # "excepcion"
              => ret[t] = ResultadoSecuencial(hist, idx[t])
    /\ (\A t \in Threads : ~InLocked(t)) => saldo = SaldoSecuencial(hist, Len(hist))

\* a deposit has returned after a later call changed the balance again
C8_Witness ==
    \E t \in Threads :
        /\ pc[t] = "fin"
        /\ hist[idx[t]].op = "depositar"
        /\ ret[t].tipo = "exito"
        /\ idx[t] < Len(hist)
        /\ saldo # ret[t].saldo

\* C9: the lock is locked exactly while a thread is between acquire() and
\* release() (so it is free after every exit: return, insufficient funds,
\* exception), and a thread that reaches release() holds the lock.
C9_LockLiberado ==
    /\ lock <=> (\E t \in Threads : InLocked(t))
    /\ \A t \in Threads : InLocked(t) => lock /\ owner = {t}

\* a call has ended with the exception of print() and the lock is free
C9_Witness ==
    \E t \in Threads :
        /\ pc[t] = "fin"
        /\ ret[t].tipo = "excepcion"
        /\ lock = FALSE

\* C10: a thread that holds the lock is never at an output step.
C10_SinSalidaConLock ==
    \A t \in Threads : lock /\ t \in owner => pc[t] \notin PrintPCs

\* C11: the balance GET /saldo returns is one the account actually held at
\* some instant between the arrival of the request and its response: the
\* balance at arrival or one stored by a concurrent deposit or withdrawal
\* since, never another value.
C11_LecturaConsistente ==
    \A t \in Threads :
        pc[t] = "resp" /\ req[t].ruta = "saldo"
            => /\ resp[t].status = "success"
               /\ resp[t].saldo \in vistos[t]

\* a read overlapped a store and returned the value stored
C11_Witness ==
    \E t \in Threads :
        /\ pc[t] = "resp"
        /\ req[t].ruta = "saldo"
        /\ Cardinality(vistos[t]) = 2
        /\ resp[t].saldo # inicial

Mutadoras == {"depositar", "retirar"}

\* C12: a /depositar or /retirar request of a caller whose session holds no
\* 'cajero_id' is answered auth_error / 401 at once, whatever its 'monto':
\* its thread never enters the account (no acquire, no store).
C12_SinSesionRechazado ==
    \A t \in Threads :
        req[t].ruta \in Mutadoras /\ session[t] = SinSesion
            => /\ pc[t] = "resp"
               /\ resp[t] = RespAuthError
               /\ idx[t] = 0
               /\ ~mutado[t]
               /\ t \notin owner

\* a request with a valid amount was rejected for lack of a session
C12_Witness ==
    \E t \in Threads :
        /\ req[t].ruta = "retirar"
        /\ session[t] = SinSesion
        /\ req[t].entrada = Entero(700)
        /\ resp[t].codigo = 401

\* positions of a thread inside cuenta_bancaria.depositar / retirar, up to
\* the return to the handler
CorePCs == LockedPCs \cup {"d_acquire", "r_acquire", "fin"}

\* C13: an authenticated /depositar or /retirar request whose 'monto' int()
\* cannot convert, or converts to a value <= 0, is answered error / 400 at
\* once and never enters the account; a thread the boundary sent into
\* depositar or retirar carries monto = int(entrada) > 0.
C13_MontoInvalidoRechazado ==
    \A t \in Threads :
        /\ (/\ req[t].ruta \in Mutadoras
            /\ session[t] # SinSesion
            /\ (~Convertible(req[t].entrada) \/ IntDe(req[t].entrada) <= 0))
              => /\ pc[t] = "resp"
                 /\ resp[t] = RespError(0)
                 /\ idx[t] = 0
                 /\ ~mutado[t]
        /\ (req[t].ruta \in Mutadoras /\ pc[t] \in CorePCs)
              => /\ Convertible(req[t].entrada)
                 /\ monto[t] = IntDe(req[t].entrada)
                 /\ monto[t] > 0

\* a logged-in caller's deposit of 0, or without 'monto', was rejected
C13_Witness ==
    \E t \in Threads :
        /\ req[t].ruta = "depositar"
        /\ session[t] # SinSesion
        /\ req[t].entrada \in {Entero(0), Nulo}
        /\ resp[t].codigo = 400

\* what C14 asks of every state
C14_Estado ==
    \A t \in Threads :
        /\ (req[t].ruta \in Mutadoras /\ pc[t] \in CorePCs) => ultimo[t] = "login"
        /\ ultimo[t] # "login" => session[t] = SinSesion
        /\ (req[t].ruta \in Mutadoras /\ ultimo[t] # "login") => resp[t] = RespAuthError

\* what C14 asks of every login
C14_Paso ==
    \A t \in Threads :
        (pc[t] = "idle" /\ req'[t].ruta = "login") =>
            IF \E k \in DOMAIN CAJEROS_DB :
                  ClaveDe(req'[t].id) = {k} /\ CAJEROS_DB[k] = req'[t].pin
            THEN /\ session'[t] = ClaveDe(req'[t].id)
                 /\ ultimo'[t] = "login"
                 /\ resp'[t].status = "success"
            ELSE /\ session'[t] = session[t]
                 /\ ultimo'[t] = ultimo[t]
                 /\ resp'[t] = RespNoAutorizado

\* C14: a caller's /depositar or /retirar reaches the account only while
\* its last session-changing event is a successful login (ID a key of
\* CAJEROS_DB, PIN equal to the stored one); a login with an unknown ID or
\* a wrong PIN leaves the session as it was; after a logout the caller's
\* deposits and withdrawals are rejected until it logs in again.
C14_OrdenDeSesion == []C14_Estado /\ [][C14_Paso]_vars

\* a caller logged in, logged out, and its deposit was rejected
C14_Witness ==
    \E t \in Threads :
        /\ ultimo[t] = "logout"
        /\ req[t].ruta = "depositar"
        /\ resp[t] = RespAuthError

\* withdrawals at the boundary of the balance of cuenta_bancaria: all of
\* it, one unit more, and one unit
MontosLimite == {1, SaldoInicial, SaldoInicial + 1}

NextLimite ==
    \E t \in Threads :
        \/ \E m \in MontosLimite : EmitirRetirar(t, m)
        \/ Retirar(t)

SpecLimite == Init /\ [][NextLimite]_vars

Paso(t) == Depositar(t) \/ DepPrintFalla(t) \/ Retirar(t) \/ RetPrintFalla(t)

\* Spec with every thread scheduled again and again: a thread that can
\* take a step of its method without interruption eventually takes one
SpecJusto == Spec /\ \A t \in Threads : WF_vars(Paso(t))

\* no state has a thread waiting for a locked lock that nobody will release
C16_SinBloqueo ==
    (Esperando # {} /\ lock) => \E u \in Threads : InLocked(u)

\* no call is in progress and the lock is free
C16_Reposo ==
    /\ \A t \in Threads : pc[t] \notin CorePCs \ {"fin"}
    /\ lock = FALSE

C17_RespuestaYEstado ==
    \A t \in Threads :
        (pc[t] = "resp" /\ req[t].ruta \in Mutadoras /\ resp[t].status # "success")
            => ~mutado[t]

\* retirar called directly on the account, with amounts of every sign
MontosDirectos == {0 - (SaldoInicial + 1), 0 - 300, 0, 700}

InitDirecto ==
    /\ \E b \in {0, SaldoInicial} : CuentaInit(b)
    /\ ThreadsInit

NextDirecto ==
    \E t \in Threads :
        \/ \E m \in MontosDirectos : EmitirRetirar(t, m)
        \/ Retirar(t)
        \/ RetPrintFalla(t)

SpecDirecto == InitDirecto /\ [][NextDirecto]_vars

\* C18: retirar(monto) called with an integer of any sign on a balance >= 0
\* leaves a balance >= 0: the balance a call found under the lock is >= 0,
\* what it stores is that balance minus monto and is >= 0 too (for
\* monto <= 0 it is no smaller than the balance found), and a call that
\* takes the failure path stores nothing.
C18_RetirarNoNegativo ==
    \A t \in Threads :
        /\ InLocked(t) => pre[t] >= 0
        /\ pc[t] \in {"r_print", "r_return"} =>
              /\ saldo = pre[t] - monto[t]
              /\ saldo >= 0
              /\ monto[t] <= 0 => saldo >= pre[t]
        /\ pc[t] = "r_fail" => saldo = pre[t] /\ ~mutado[t]
        /\ pc[t] \in {"idle", "r_acquire", "fin"} => saldo >= 0

\* a withdrawal of a negative amount returned success and the balance is
\* above the opening one, while a withdrawal of zero also succeeded
C18_Witness ==
    \E t, u \in Threads :
        /\ pc[t] = "fin" /\ monto[t] < 0 /\ ret[t].tipo = "exito"
        /\ pc[u] = "fin" /\ monto[u] = 0 /\ ret[u].tipo = "exito"
        /\ saldo > inicial

\* the routes that are neither /depositar nor /retirar
Ajenas == {"login", "logout", "cajero_status", "saldo"}

\* a thread serving one of those routes is outside the account
C19_Estado ==
    \A t \in Threads :
        req[t].ruta \in Ajenas =>
            /\ t \notin owner
            /\ pc[t] \notin CorePCs
            /\ ~mutado[t]

\* a step of a thread serving one of those routes leaves the account alone
C19_Paso ==
    \A t \in Threads :
        (pc'[t] # pc[t] /\ (req[t].ruta \in Ajenas \/ req'[t].ruta \in Ajenas))
            => /\ saldo' = saldo
               /\ lock' = lock
               /\ owner' = owner
               /\ hist' = hist

\* C19: login, logout, cajero_status and the balance query, whatever their
\* input and whatever the other threads are doing, leave the balance as it
\* is and neither acquire nor release the account lock.
C19_SoloDepositarYRetirar == []C19_Estado /\ [][C19_Paso]_vars

\* a balance query was answered while another thread held the lock inside
\* a deposit, and the lock is still held by that thread
C19_Witness ==
    \E t, u \in Threads :
        /\ pc[t] = "resp" /\ req[t].ruta = "saldo"
        /\ pc[u] = "d_print" /\ lock /\ owner = {u}

====
